---------------------------- MODULE Spec2Model ----------------------------
(***************************************************************************)
(* Cantonese Braille <-> Jyutping transliteration (src/b2j.js, lines 1-503:*)
(* the tables, parseCantoneseBraille, rom2jp, jp2rom and                   *)
(* parseJyutpingToBraille).                                                *)
(*                                                                         *)
(* A JavaScript string is modelled as a sequence of characters, and every  *)
(* character as a TLA+ string:                                             *)
(*   - a Braille cell U+2800+n is named by its raised dots: "d1234" is     *)
(*     U+280F, "d0" is the blank cell U+2800, "d3456" is the number prefix;*)
(*   - ASCII characters are themselves ("a", "A", "4", " ", "~"), the line *)
(*     feed is "\n";                                                       *)
(*   - a full-width punctuation mark is named in capitals ("PERIOD" is     *)
(*     U+3002, "EMARK" is U+FF01, ...): one name is one character.         *)
(* A symbol of a table (an initial, a final, a tone, a punctuation mark)   *)
(* is the sequence of its characters: <<"g", "w">> is 'gw'.                *)
(***************************************************************************)
EXTENDS Integers, Sequences, FiniteSets, TLC

(***************************************************************************)
(* Bounds of the model.                                                    *)
(***************************************************************************)
\* longest free-form decode input (cells and stray characters)
MaxLen == 3
\* longest digit run after the number prefix
MaxDigits == 3
\* longest decode input made of punctuation cells only
MaxPunctLen == 6
\* longest free-form encode input
MaxJpLen == 3
\* calls in one chain decode -> encode -> decode (each on the previous result)
MaxCalls == 3

\* the longest string rom2jp is called with directly
MaxRomLen == 4

(***************************************************************************)
(* The tables, as the ordered entries of the object literals.              *)
(***************************************************************************)
initialEntries ==
  <<
    <<"d1234", <<"b">>>>,
    <<"d12346", <<"p">>>>,
    <<"d134", <<"m">>>>,
    <<"d124", <<"f">>>>,
    <<"d2345", <<"d">>>>,
    <<"d23456", <<"t">>>>,
    <<"d1345", <<"n">>>>,
    <<"d123", <<"l">>>>,
    <<"d13", <<"g">>>>,
    <<"d1235", <<"k">>>>,
    <<"d1245", <<"n", "g">>>>,
    <<"d125", <<"h">>>>,
    <<"d12345", <<"g", "w">>>>,
    <<"d12456", <<"k", "w">>>>,
    <<"d2456", <<"w">>>>,
    <<"d14", <<"z">>>>,
    <<"d1346", <<"c">>>>,
    <<"d234", <<"s">>>>,
    <<"d245", <<"j">>>>
  >>

finalEntries ==
  <<
    <<"d12", <<"a", "a">>>>,
    <<"d346", <<"a", "a", "i">>>>,
    <<"d34", <<"a", "a", "u">>>>,
    <<"d345", <<"a", "a", "m">>>>,
    <<"d45", <<"a", "a", "n">>>>,
    <<"d14", <<"a", "a", "n", "g">>>>,
    <<"d1234", <<"a", "a", "p">>>>,
    <<"d2345", <<"a", "a", "t">>>>,
    <<"d13", <<"a", "a", "k">>>>,
    <<"d146", <<"a", "i">>>>,
    <<"d16", <<"a", "u">>>>,
    <<"d456", <<"a", "m">>>>,
    <<"d1246", <<"a", "n">>>>,
    <<"d1245", <<"a", "n", "g">>>>,
    <<"d26", <<"a", "p">>>>,
    <<"d35", <<"a", "t">>>>,
    <<"d46", <<"a", "k">>>>,
    <<"d15", <<"e">>>>,
    <<"d125", <<"e", "i">>>>,
    <<"d2356", <<"e", "n", "g">>>>,
    <<"d2456", <<"e", "k">>>>,
    <<"d145", <<"s", "z">>>>,
    <<"d24", <<"i">>>>,
    <<"d13456", <<"i", "u">>>>,
    <<"d235", <<"i", "m">>>>,
    <<"d256", <<"i", "n">>>>,
    <<"d356", <<"i", "n", "g">>>>,
    <<"d12346", <<"i", "p">>>>,
    <<"d23456", <<"i", "t">>>>,
    <<"d1235", <<"i", "k">>>>,
    <<"d135", <<"o">>>>,
    <<"d126", <<"o", "i">>>>,
    <<"d1236", <<"o", "u">>>>,
    <<"d123", <<"o", "m">>>>,
    <<"d1345", <<"o", "n">>>>,
    <<"d56", <<"o", "n", "g">>>>,
    <<"d134", <<"o", "p">>>>,
    <<"d124", <<"o", "t">>>>,
    <<"d12456", <<"o", "k">>>>,
    <<"d136", <<"u">>>>,
    <<"d1256", <<"u", "i">>>>,
    <<"d2346", <<"u", "n">>>>,
    <<"d236", <<"u", "n", "g">>>>,
    <<"d1356", <<"u", "t">>>>,
    <<"d12345", <<"u", "k">>>>,
    <<"d156", <<"o", "e">>>>,
    <<"d245", <<"e", "o", "i">>>>,
    <<"d234", <<"e", "o", "n">>>>,
    <<"d25", <<"o", "e", "n", "g">>>>,
    <<"d1346", <<"e", "o", "t">>>>,
    <<"d246", <<"o", "e", "k">>>>,
    <<"d1456", <<"y", "u">>>>,
    <<"d23", <<"y", "u", "n">>>>,
    <<"d12356", <<"y", "u", "t">>>>
  >>

toneEntries ==
  <<
    <<<<"d0">>, <<"1">>>>,
    <<<<"d1">>, <<"2">>>>,
    <<<<"d4">>, <<"3">>>>,
    <<<<"d3">>, <<"4">>>>,
    <<<<"d6">>, <<"5">>>>,
    <<<<"d2">>, <<"6">>>>,
    <<<<"d5">>, <<"3">>>>
  >>

numberEntries ==
  <<
    <<"d1", <<"1">>>>,
    <<"d12", <<"2">>>>,
    <<"d14", <<"3">>>>,
    <<"d145", <<"4">>>>,
    <<"d15", <<"5">>>>,
    <<"d124", <<"6">>>>,
    <<"d1245", <<"7">>>>,
    <<"d125", <<"8">>>>,
    <<"d24", <<"9">>>>,
    <<"d245", <<"0">>>>,
    <<"d0", <<" ">>>>
  >>

punctuationEntries ==
  <<
    <<<<"d123456">>, <<"PERIOD">>>>,
    <<<<"d123456", "d0">>, <<"PERIOD">>>>,
    <<<<"d36">>, <<"COMMA">>>>,
    <<<<"d45">>, <<"DUN">>>>,
    <<<<"d56", "d23">>, <<"MIDDOT">>>>,
    <<<<"d236", "d0">>, <<"QMARK">>>>,
    <<<<"d2346", "d0">>, <<"EMARK">>>>,
    <<<<"d25", "d0">>, <<"COLON">>>>,
    <<<<"d26", "d0">>, <<"SEMICOLON">>>>,
    <<<<"d36", "d3">>, <<"-">>>>,
    <<<<"d36", "d36">>, <<"EMDASH">>>>,
    <<<<"d3", "d3", "d3">>, <<"ELLIPSIS">>>>,
    <<<<"d0", "d3", "d3", "d3", "d0">>, <<"ELLIPSIS">>>>,
    <<<<"d0", "d2356">>, <<"LPAREN">>>>,
    <<<<"d2356", "d0">>, <<"RPAREN">>>>,
    <<<<"d0", "d6", "d2356">>, <<"LBRACKET">>>>,
    <<<<"d2356", "d3", "d0">>, <<"RBRACKET">>>>,
    <<<<"d0", "d126">>, <<"LDANGLE">>>>,
    <<<<"d345", "d0">>, <<"RDANGLE">>>>,
    <<<<"d0", "d6", "d126">>, <<"LANGLE">>>>,
    <<<<"d345", "d3", "d0">>, <<"RANGLE">>>>,
    <<<<"d0", "d236">>, <<"LCORNER">>>>,
    <<<<"d356", "d0">>, <<"RCORNER">>>>,
    <<<<"d0", "d6", "d236">>, <<"LDCORNER">>>>,
    <<<<"d356", "d3", "d0">>, <<"RDCORNER">>>>,
    <<<<"d0", "d12356">>, <<"LCORNER">>>>,
    <<<<"d12456", "d0">>, <<"RCORNER">>>>,
    <<<<"d0", "d456">>, <<"*", "*">>>>,
    <<<<"d1356", "d0">>, <<"*", "*">>>>
  >>

asciiOrder ==
  <<
    <<" ", "d0">>, <<"A", "d1">>, <<"1", "d2">>, <<"B", "d12">>,
    <<"'", "d3">>, <<"K", "d13">>, <<"2", "d23">>, <<"L", "d123">>,
    <<"@", "d4">>, <<"C", "d14">>, <<"I", "d24">>, <<"F", "d124">>,
    <<"/", "d34">>, <<"M", "d134">>, <<"S", "d234">>, <<"P", "d1234">>,
    <<"\"", "d5">>, <<"E", "d15">>, <<"3", "d25">>, <<"H", "d125">>,
    <<"9", "d35">>, <<"O", "d135">>, <<"6", "d235">>, <<"R", "d1235">>,
    <<"^", "d45">>, <<"D", "d145">>, <<"J", "d245">>, <<"G", "d1245">>,
    <<">", "d345">>, <<"N", "d1345">>, <<"T", "d2345">>, <<"Q", "d12345">>,
    <<",", "d6">>, <<"*", "d16">>, <<"5", "d26">>, <<"<", "d126">>,
    <<"-", "d36">>, <<"U", "d136">>, <<"8", "d236">>, <<"V", "d1236">>,
    <<".", "d46">>, <<"%", "d146">>, <<"[", "d246">>, <<"$", "d1246">>,
    <<"+", "d346">>, <<"X", "d1346">>, <<"!", "d2346">>, <<"&", "d12346">>,
    <<";", "d56">>, <<":", "d156">>, <<"4", "d256">>, <<"\\", "d1256">>,
    <<"0", "d356">>, <<"Z", "d1356">>, <<"7", "d2356">>, <<"(", "d12356">>,
    <<"_", "d456">>, <<"?", "d1456">>, <<"W", "d2456">>, <<"]", "d12456">>,
    <<"#", "d3456">>, <<"Y", "d13456">>, <<")", "d23456">>, <<"=", "d123456">>
  >>

(***************************************************************************)
(* Character classes and string helpers.                                   *)
(***************************************************************************)
lowerLetters ==
  <<"a", "b", "c", "d", "e", "f", "g", "h", "i", "j", "k", "l", "m",
    "n", "o", "p", "q", "r", "s", "t", "u", "v", "w", "x", "y", "z">>

upperLetters ==
  <<"A", "B", "C", "D", "E", "F", "G", "H", "I", "J", "K", "L", "M",
    "N", "O", "P", "Q", "R", "S", "T", "U", "V", "W", "X", "Y", "Z">>

Range(s) == {s[n] : n \in DOMAIN s}

Lower == Range(lowerLetters)

Upper == Range(upperLetters)

\* \d
Digit == {"0", "1", "2", "3", "4", "5", "6", "7", "8", "9"}

\* the line terminators among the characters of the model
IsLineTerminator(c) == c = "\n"

\* \s : white space and line terminators (U+2800, the blank cell, is not \s)
IsSpace(c) == c = " " \/ IsLineTerminator(c)

\* [⠀-⠿]
BrailleCells == {asciiOrder[n][2] : n \in DOMAIN asciiOrder}

\* String.prototype.toUpperCase / toLowerCase, one character at a time; of
\* the letters outside ASCII the model has e with acute accent, U+00E9
\* "eacute" and U+00C9 "EACUTE"
ToUpper(c) ==
  IF c \in Lower
    THEN upperLetters[CHOOSE n \in DOMAIN lowerLetters : lowerLetters[n] = c]
    ELSE IF c = "eacute" THEN "EACUTE"
    ELSE c

ToLower(c) ==
  IF c \in Upper
    THEN lowerLetters[CHOOSE n \in DOMAIN upperLetters : upperLetters[n] = c]
    ELSE IF c = "EACUTE" THEN "eacute"
    ELSE c

RECURSIVE Cat(_)
Cat(ss) == IF ss = <<>> THEN <<>> ELSE Head(ss) \o Cat(Tail(ss))

Min(a, b) == IF a < b THEN a ELSE b

\* s.slice(from, to) with 0-based positions, clamped to the string
Slice(s, from, to) == SubSeq(s, from + 1, Min(to, Len(s)))

\* An object built by assigning entries in order: the last entry of a key wins.
LastEntry(entries, col, x) ==
  CHOOSE n \in DOMAIN entries :
    /\ entries[n][col] = x
    /\ \A m \in DOMAIN entries : entries[m][col] = x => m <= n

ObjectOf(entries) ==
  [k \in {entries[n][1] : n \in DOMAIN entries} |->
     entries[LastEntry(entries, 1, k)][2]]

\* ReverseOf keeping the first cell sequence of a symbol
ReverseOfFirstWins(entries) ==
  [v \in {entries[n][2] : n \in DOMAIN entries} |->
     entries[CHOOSE n \in DOMAIN entries :
               /\ entries[n][2] = v
               /\ \A k \in DOMAIN entries : entries[k][2] = v => n <= k][1]]

\* Object.entries(map).forEach(([braille, sound]) => { reverse[sound] = braille })
ReverseOf(entries) ==
  [v \in {entries[n][2] : n \in DOMAIN entries} |->
     entries[LastEntry(entries, 2, v)][1]]

initialMap == ObjectOf(initialEntries)

finalMap == ObjectOf(finalEntries)

toneMap == ObjectOf(toneEntries)

numberMap == ObjectOf(numberEntries)

punctuationMap == ObjectOf(punctuationEntries)

reverseInitialMap == ReverseOf(initialEntries)

\* reverseFinalMap filled from initialMap
reverseFinalMapOfInitials == ReverseOf(initialEntries)

reverseFinalMap == ReverseOf(finalEntries)

reverseToneMap == ReverseOf(toneEntries)

reverseNumberMap == ReverseOf(numberEntries)

reversePunctuationMap == ReverseOf(punctuationEntries)

NumberPrefix == "d3456"

BlankCell == "d0"

(***************************************************************************)
(* The regular expressions of the source, each computed as the engine      *)
(* computes it (leftmost match, greedy quantifiers, global replace).       *)
(***************************************************************************)
\* s.replace(/pat/g, rep) for a literal pattern, from 1-based position p
RECURSIVE ReplaceLitFrom(_, _, _, _)
ReplaceLitFrom(s, p, pat, rep) ==
  IF p > Len(s) THEN <<>>
  ELSE IF p + Len(pat) - 1 <= Len(s) /\ SubSeq(s, p, p + Len(pat) - 1) = pat
    THEN rep \o ReplaceLitFrom(s, p + Len(pat), pat, rep)
    ELSE <<s[p]>> \o ReplaceLitFrom(s, p + 1, pat, rep)

ReplaceLit(s, pat, rep) == ReplaceLitFrom(s, 1, pat, rep)

\* does pat occur in s at 1-based position p
OccursAt(s, p, pat) ==
  p + Len(pat) - 1 <= Len(s) /\ SubSeq(s, p, p + Len(pat) - 1) = pat

\* /(?!k|ng)/ at position p
NotKOrNg(s, p) == ~OccursAt(s, p, <<"k">>) /\ ~OccursAt(s, p, <<"n", "g">>)

\* s.replace(/j(y|i(?!k|ng))/g, '$1')
RECURSIVE StripJFrom(_, _)
StripJFrom(s, p) ==
  IF p > Len(s) THEN <<>>
  ELSE IF /\ s[p] = "j"
          /\ p + 1 <= Len(s)
          /\ \/ s[p + 1] = "y"
             \/ s[p + 1] = "i" /\ NotKOrNg(s, p + 2)
    THEN <<s[p + 1]>> \o StripJFrom(s, p + 2)
    ELSE <<s[p]>> \o StripJFrom(s, p + 1)

\* s.replace(/w(u(?!k|ng))/g, '$1')
RECURSIVE StripWFrom(_, _)
StripWFrom(s, p) ==
  IF p > Len(s) THEN <<>>
  ELSE IF /\ s[p] = "w"
          /\ p + 1 <= Len(s)
          /\ s[p + 1] = "u" /\ NotKOrNg(s, p + 2)
    THEN <<s[p + 1]>> \o StripWFrom(s, p + 2)
    ELSE <<s[p]>> \o StripWFrom(s, p + 1)

\* s.replace(/(?<![a-z])pat(?=\d)/g, rep) for a literal pat
RECURSIVE ExpandNasalFrom(_, _, _, _)
ExpandNasalFrom(s, p, pat, rep) ==
  IF p > Len(s) THEN <<>>
  ELSE IF /\ OccursAt(s, p, pat)
          /\ (p = 1 \/ s[p - 1] \notin Lower)
          /\ p + Len(pat) <= Len(s)
          /\ s[p + Len(pat)] \in Digit
    THEN rep \o ExpandNasalFrom(s, p + Len(pat), pat, rep)
    ELSE <<s[p]>> \o ExpandNasalFrom(s, p + 1, pat, rep)

\* String.prototype.trim
RECURSIVE TrimStart(_)
TrimStart(s) == IF s # <<>> /\ IsSpace(Head(s)) THEN TrimStart(Tail(s)) ELSE s

RECURSIVE TrimEnd(_)
TrimEnd(s) ==
  IF s # <<>> /\ IsSpace(s[Len(s)]) THEN TrimEnd(SubSeq(s, 1, Len(s) - 1)) ELSE s

Trim(s) == TrimEnd(TrimStart(s))

\* the number of characters from 0-based position p on that satisfy a class
RECURSIVE SpaceRun(_, _)
SpaceRun(s, p) ==
  IF p < Len(s) /\ IsSpace(s[p + 1]) THEN 1 + SpaceRun(s, p + 1) ELSE 0

RECURSIVE DotRun(_, _)
DotRun(s, p) ==
  IF p < Len(s) /\ ~IsLineTerminator(s[p + 1]) THEN 1 + DotRun(s, p + 1) ELSE 0

RECURSIVE LetterRun(_, _)
LetterRun(s, p) ==
  IF p < Len(s) /\ s[p + 1] \in Lower \cup Upper
    THEN 1 + LetterRun(s, p + 1)
    ELSE 0

\* /^/m and /$/m at 0-based position p
LineStart(s, p) == p = 0 \/ IsLineTerminator(s[p])

LineEnd(s, p) == p = Len(s) \/ IsLineTerminator(s[p + 1])

\* /^\s*(.*)\s*$/m tried at 0-based position p where ^ holds.  Both \s* and
\* .* are greedy and the first two never have to give anything back: \s*
\* takes the whole white-space run (line terminators included), .* the rest
\* of the line, and the last \s* the longest run after which $ holds.
LineMatch(s, p) ==
  LET q == p + SpaceRun(s, p)
      r == q + DotRun(s, q)
      w == SpaceRun(s, r)
      e == CHOOSE k \in r .. (r + w) :
             /\ LineEnd(s, k)
             /\ \A j \in r .. (r + w) : LineEnd(s, j) => j <= k
  IN  [group |-> Slice(s, q, r), end |-> e]

\* s.replace(/^\s*(.*)\s*$/gm, f): the pieces of the result, in order; a piece
\* is either a character no match covers or the group of a match, which the
\* caller replaces by f(group).  After an empty match the engine steps one
\* character on.
RECURSIVE LinePieces(_, _)
LinePieces(s, p) ==
  IF p > Len(s) THEN <<>>
  ELSE IF LineStart(s, p)
    THEN LET m == LineMatch(s, p)
         IN  IF m.end = p
               THEN <<[matched |-> TRUE, text |-> m.group]>>
                    \o (IF p < Len(s)
                          THEN <<[matched |-> FALSE, text |-> <<s[p + 1]>>]>>
                          ELSE <<>>)
                    \o LinePieces(s, p + 1)
               ELSE <<[matched |-> TRUE, text |-> m.group]>>
                    \o LinePieces(s, m.end)
    ELSE IF p < Len(s)
      THEN <<[matched |-> FALSE, text |-> <<s[p + 1]>>]>> \o LinePieces(s, p + 1)
      ELSE <<>>

\* line.replace(/(?<=[⠀-⠿])\s+(?=[⠀-⠿])/g, '')
RECURSIVE JoinCellsFrom(_, _)
JoinCellsFrom(s, p) ==
  IF p >= Len(s) THEN <<>>
  ELSE LET w == SpaceRun(s, p)
       IN  IF /\ w > 0
              /\ p > 0 /\ s[p] \in BrailleCells
              /\ p + w < Len(s) /\ s[p + w + 1] \in BrailleCells
             THEN JoinCellsFrom(s, p + w)
             ELSE <<s[p + 1]>> \o JoinCellsFrom(s, p + 1)

JoinCells(s) == JoinCellsFrom(s, 0)

\* romanization.replace(/^\s*(.*)\s*$/gm, '$1')
TrimLines(s) ==
  LET ps == LinePieces(s, 0) IN Cat([n \in DOMAIN ps |-> ps[n].text])

\* brailleResult.replace(/^\s*(.*)\s*$/gm, (_, line) => line.replace(..., ''))
TrimAndJoinLines(s) ==
  LET ps == LinePieces(s, 0)
  IN  Cat([n \in DOMAIN ps |->
             IF ps[n].matched THEN JoinCells(ps[n].text) ELSE ps[n].text])

(***************************************************************************)
(* The inputs the calls are made with.                                     *)
(***************************************************************************)
SeqsUpTo(S, n) == UNION {[1 .. k -> S] : k \in 0 .. n}

InitialCells == DOMAIN initialMap

FinalCells == DOMAIN finalMap

ToneCells == {k[1] : k \in DOMAIN toneMap}

DigitCells == {c \in DOMAIN numberMap : numberMap[c][1] \in Digit}

\* nothing, or one cell of the Tone table
ToneSuffixes == {<<>>} \cup {<<t>> : t \in ToneCells}

\* one syllable: initial cell + final cell, or a final cell alone, then an
\* optional tone cell
SyllableInputs ==
  {<<c1, c2>> \o t : c1 \in InitialCells, c2 \in FinalCells, t \in ToneSuffixes}
    \cup {<<c>> \o t : c \in FinalCells, t \in ToneSuffixes}

\* the number prefix and a run of digit cells
NumberInputs ==
  {<<NumberPrefix>> \o d : d \in SeqsUpTo(DigitCells, MaxDigits) \ {<<>>}}

\* blank, dots-3 and dots-36: the cells of the ellipses, the hyphen, the dash
PunctCells == {"d0", "d3", "d36"}

PunctInputs == SeqsUpTo(PunctCells, MaxPunctLen)

\* number prefix, "a" (ASCII Braille for dots-1: digit 1, tone 2), blank,
\* dots-12 (digit 2, final aa), dots-1234 (initial b, final aap), dots-2346
\* (final un; with a blank the exclamation mark), dots-3 (tone 4), dots-123456
\* (the period), a line feed and two characters of no table, one of them a
\* lower-case letter
MixedChars ==
  {"d3456", "a", "d0", "d12", "d1234", "d2346", "d3", "d123456", "\n", "~",
   "eacute"}

FreeInputs == SeqsUpTo(MixedChars, MaxLen)

DecodeInputs == SyllableInputs \cup NumberInputs \cup PunctInputs \cup FreeInputs

\* a syllable written without a tone cell (aa, baa), then the start of the
\* next unit: the ellipsis of three or of five cells, the opening parenthesis
\* (blank, dots-2356), the comma, the period, or a cell of the Initial and
\* Final tables
NextUnits ==
  {<<"d3", "d3", "d3">>, <<"d0", "d3", "d3", "d3", "d0">>, <<"d0", "d2356">>,
   <<"d36">>, <<"d123456">>, <<"d1234">>, <<"d12">>, <<"d1234", "d12">>}

LookaheadInputs == {s \o u : s \in {<<"d12">>, <<"d1234", "d12">>}, u \in NextUnits}

JyutpingChars == {"g", "w", "u", "k", "N", "2", "6", " ", "\n", "PERIOD", "~"}

EncodeInputs == SeqsUpTo(JyutpingChars, MaxJpLen)

\* syllables decode returns: "wu2" and "gu2" begin with a cell that is no
\* digit cell, "aa1" (dots-12, the digit 2) and "hei3" (dots-125, the digit
\* 8) with one that is
BoundarySyllables ==
  {<<"w", "u", "2">>, <<"h", "e", "i", "3">>, <<"a", "a", "1">>, <<"g", "u", "2">>}

\* a digit run, a space and a syllable
BoundaryInputs ==
  {d \o <<" ">> \o s : d \in SeqsUpTo({"2", "6"}, MaxDigits) \ {<<>>},
                       s \in BoundarySyllables}

\* the stops, the two tones of the checked-tone rule and a vowel
RomChars == {"p", "t", "k", "4", "6", "a"}

Rom2jpInputs == SeqsUpTo(RomChars, MaxRomLen)

Tones == {<<"1">>, <<"2">>, <<"3">>, <<"4">>, <<"5">>, <<"6">>}

\* one syllable in Jyutping: an initial of the Initial table or none, a
\* final of the Final table, a tone
Jp2romInputs ==
  {ini \o fin \o t : ini \in {<<>>} \cup DOMAIN reverseInitialMap,
                     fin \in DOMAIN reverseFinalMap, t \in Tones}

(***************************************************************************)
(* State.                                                                  *)
(***************************************************************************)
VARIABLES
  tables,         \* the five forward and the five reverse tables, filled
                  \* when the file is loaded; the functions read them
                  \* through the definitions above, their values at load
  fn,             \* the function being called: "decode" is
                  \* parseCantoneseBraille, "encode" parseJyutpingToBraille
  arg,            \* its argument
  pc,             \* "call", "scan" (decode's loop), "tokens" (encode's loop),
                  \* "returned", "threw"
  chars,          \* decode: the cells of the input
  i,              \* the loop index of either function
  inNumberMode,   \* decode
  romanization,   \* decode: the output so far
  initial,        \* decode: the locals of the last iteration
  final,
  tone,
  tokens,         \* encode: the tokens of the input (<<>> stands for null,
                  \* match never returns an empty array)
  brailleResult,  \* encode: the output so far
  ret,            \* the value returned
  warnings,       \* console.warn calls of this call
  branch,         \* the branch the last iteration took
  iters,          \* loop iterations of this call
  calls           \* the completed calls of the chain, [fn, arg, ret] each

\* the tables as the top level of the file leaves them
TablesAtLoad ==
  [initialMap |-> initialMap, finalMap |-> finalMap, toneMap |-> toneMap,
   numberMap |-> numberMap, punctuationMap |-> punctuationMap,
   reverseInitialMap |-> reverseInitialMap, reverseFinalMap |-> reverseFinalMap,
   reverseToneMap |-> reverseToneMap, reverseNumberMap |-> reverseNumberMap,
   reversePunctuationMap |-> reversePunctuationMap]

vars ==
  <<tables, fn, arg, pc, chars, i, inNumberMode, romanization, initial, final, tone,
    tokens, brailleResult, ret, warnings, branch, iters, calls>>

Init ==
  /\ tables = TablesAtLoad
  /\ \/ fn = "decode" /\ arg \in DecodeInputs \cup LookaheadInputs
     \/ fn = "encode" /\ arg \in EncodeInputs \cup BoundaryInputs
     \/ fn = "rom2jp" /\ arg \in Rom2jpInputs
     \/ fn = "jp2rom" /\ arg \in Jp2romInputs
  /\ pc = "call"
  /\ chars = <<>>
  /\ i = 0
  /\ inNumberMode = FALSE
  /\ romanization = <<>>
  /\ initial = <<>>
  /\ final = <<>>
  /\ tone = <<"1">>
  /\ tokens = <<>>
  /\ brailleResult = <<>>
  /\ ret = <<>>
  /\ warnings = 0
  /\ branch = "none"
  /\ iters = 0
  /\ calls = <<>>

\* what is kept of a completed call: the function, its argument and result,
\* and the locals it ended with
CallRecord(r) ==
  [fn |-> fn, arg |-> arg, ret |-> r, initial |-> initial, final |-> final,
   tone |-> tone, romanization |-> romanization, branch |-> branch,
   iters |-> iters]

(***************************************************************************)
(* parseCantoneseBraille                                                   *)
(***************************************************************************)
\* ASCII Braille to Unicode Braille: the character's index in the order string
ToBraille(ch) ==
  IF \E n \in DOMAIN asciiOrder : asciiOrder[n][1] = ch
    THEN asciiOrder[CHOOSE n \in DOMAIN asciiOrder : asciiOrder[n][1] = ch][2]
    ELSE ch

\* Array.from(brailleString.toUpperCase(), ch => ...)
ConvertInput(s) == [n \in DOMAIN s |-> ToBraille(ToUpper(s[n]))]

DecodeEntry ==
  /\ pc = "call" /\ fn = "decode"
  /\ chars' = ConvertInput(arg)
  /\ romanization' = <<>>
  /\ i' = 0
  /\ inNumberMode' = FALSE
  /\ pc' = "scan"
  /\ UNCHANGED <<tables, fn, arg, initial, final, tone, tokens, brailleResult, ret,
                 warnings, branch, iters, calls>>

HasChar(k) == k < Len(chars)

char1 == chars[i + 1]

char2 == chars[i + 2]

nextTwo == Slice(chars, i, i + 2)

nextThree == Slice(chars, i, i + 3)

nextFive == Slice(chars, i, i + 5)

\* DecBranch with the edge-case rule tried before the rule of a final alone
DecBranchEdgeFirst ==
  IF char1 = NumberPrefix THEN "prefix"
  ELSE IF inNumberMode /\ char1 \in DOMAIN numberMap THEN "digit"
  ELSE IF nextFive \in DOMAIN punctuationMap THEN "punct5"
  ELSE IF nextThree \in DOMAIN punctuationMap THEN "punct3"
  ELSE IF nextTwo \in DOMAIN punctuationMap THEN "punct2"
  ELSE IF <<char1>> \in DOMAIN punctuationMap THEN "punct1"
  ELSE IF char1 \in DOMAIN initialMap /\ HasChar(i + 1) /\ char2 \in DOMAIN finalMap
    THEN "initial+final"
  ELSE IF char1 \in DOMAIN initialMap /\ HasChar(i + 1)
    THEN (IF char2 \in DOMAIN finalMap THEN "edge:initial+final"
          ELSE IF char1 \in DOMAIN finalMap THEN "edge:final"
          ELSE "edge:unrecognized")
  ELSE IF char1 \in DOMAIN finalMap THEN "final"
  ELSE IF char1 = BlankCell THEN "blank"
  ELSE "unrecognized"

\* DecBranch with the syllable rules tried before the punctuation windows
DecBranchSyllableFirst ==
  IF char1 = NumberPrefix THEN "prefix"
  ELSE IF inNumberMode /\ char1 \in DOMAIN numberMap THEN "digit"
  ELSE IF char1 \in DOMAIN initialMap /\ HasChar(i + 1) /\ char2 \in DOMAIN finalMap
    THEN "initial+final"
  ELSE IF char1 \in DOMAIN finalMap THEN "final"
  ELSE IF nextFive \in DOMAIN punctuationMap THEN "punct5"
  ELSE IF nextThree \in DOMAIN punctuationMap THEN "punct3"
  ELSE IF nextTwo \in DOMAIN punctuationMap THEN "punct2"
  ELSE IF <<char1>> \in DOMAIN punctuationMap THEN "punct1"
  ELSE IF char1 = BlankCell THEN "blank"
  ELSE "unrecognized"

\* DecBranch with the punctuation windows tried shortest first
DecBranchShortestFirst ==
  IF char1 = NumberPrefix THEN "prefix"
  ELSE IF inNumberMode /\ char1 \in DOMAIN numberMap THEN "digit"
  ELSE IF <<char1>> \in DOMAIN punctuationMap THEN "punct1"
  ELSE IF nextTwo \in DOMAIN punctuationMap THEN "punct2"
  ELSE IF nextThree \in DOMAIN punctuationMap THEN "punct3"
  ELSE IF nextFive \in DOMAIN punctuationMap THEN "punct5"
  ELSE IF char1 \in DOMAIN initialMap /\ HasChar(i + 1) /\ char2 \in DOMAIN finalMap
    THEN "initial+final"
  ELSE IF char1 \in DOMAIN finalMap THEN "final"
  ELSE IF char1 \in DOMAIN initialMap /\ HasChar(i + 1)
    THEN (IF char2 \in DOMAIN finalMap THEN "edge:initial+final"
          ELSE IF char1 \in DOMAIN finalMap THEN "edge:final"
          ELSE "edge:unrecognized")
  ELSE IF char1 = BlankCell THEN "blank"
  ELSE "unrecognized"

\* the if / continue chain of one iteration, in the order of the code
DecBranch ==
  IF char1 = NumberPrefix THEN "prefix"
  ELSE IF inNumberMode /\ char1 \in DOMAIN numberMap THEN "digit"
  ELSE IF nextFive \in DOMAIN punctuationMap THEN "punct5"
  ELSE IF nextThree \in DOMAIN punctuationMap THEN "punct3"
  ELSE IF nextTwo \in DOMAIN punctuationMap THEN "punct2"
  ELSE IF <<char1>> \in DOMAIN punctuationMap THEN "punct1"
  ELSE IF char1 \in DOMAIN initialMap /\ HasChar(i + 1) /\ char2 \in DOMAIN finalMap
    THEN "initial+final"
  ELSE IF char1 \in DOMAIN finalMap THEN "final"
  ELSE IF char1 \in DOMAIN initialMap /\ HasChar(i + 1)
    THEN (IF char2 \in DOMAIN finalMap THEN "edge:initial+final"
          ELSE IF char1 \in DOMAIN finalMap THEN "edge:final"
          ELSE "edge:unrecognized")
  ELSE IF char1 = BlankCell THEN "blank"
  ELSE "unrecognized"

Scanning == fn = "decode" /\ pc = "scan" /\ i < Len(chars)

\* ResetNumberMode of a decoder that never leaves number mode here
ResetNumberModeNever == inNumberMode

\* "Reset number mode if we encounter non-number characters"
ResetNumberMode ==
  IF inNumberMode /\ char1 \notin DOMAIN numberMap /\ char1 # NumberPrefix
    THEN FALSE
    ELSE inNumberMode

\* ' ' after a token that is not the last
SpaceBefore(k) == IF k < Len(chars) THEN <<" ">> ELSE <<>>

NoSyllable == initial' = <<>> /\ final' = <<>> /\ tone' = <<"1">>

DecFrame == UNCHANGED <<tables, fn, arg, pc, chars, tokens, brailleResult, ret, calls>>

DecNumberPrefix ==
  /\ Scanning /\ DecBranch = "prefix"
  /\ inNumberMode' = TRUE
  /\ i' = i + 1
  /\ NoSyllable
  /\ branch' = DecBranch
  /\ iters' = iters + 1
  /\ UNCHANGED <<romanization, warnings>>
  /\ DecFrame

\* NumberModeAfter without the test for the end of the input
NumberModeAfterNoEnd(k) ==
  IF k < Len(chars) /\ chars[k + 1] \notin DOMAIN numberMap /\ chars[k + 1] # NumberPrefix
    THEN FALSE
    ELSE inNumberMode

\* after a digit: "Check if next character is also a number or if we've
\* reached end"
NumberModeAfter(k) ==
  IF k >= Len(chars) \/ (chars[k + 1] \notin DOMAIN numberMap /\ chars[k + 1] # NumberPrefix)
    THEN FALSE
    ELSE inNumberMode

DecNumberDigit ==
  /\ Scanning /\ DecBranch = "digit"
  /\ romanization' = romanization \o numberMap[char1]
  /\ i' = i + 1
  /\ inNumberMode' = NumberModeAfter(i + 1)
  /\ NoSyllable
  /\ branch' = DecBranch
  /\ iters' = iters + 1
  /\ UNCHANGED warnings
  /\ DecFrame

\* a punctuation match of the window, which the code takes to be n cells long
PunctuationStep(window, n) ==
  /\ romanization' = romanization \o punctuationMap[window] \o SpaceBefore(i + n)
  /\ i' = i + n
  /\ inNumberMode' = ResetNumberMode
  /\ NoSyllable
  /\ branch' = DecBranch
  /\ iters' = iters + 1
  /\ UNCHANGED warnings
  /\ DecFrame

DecPunctuation5 == Scanning /\ DecBranch = "punct5" /\ PunctuationStep(nextFive, 5)

DecPunctuation3 == Scanning /\ DecBranch = "punct3" /\ PunctuationStep(nextThree, 3)

DecPunctuation2 == Scanning /\ DecBranch = "punct2" /\ PunctuationStep(nextTwo, 2)

DecPunctuation1 == Scanning /\ DecBranch = "punct1" /\ PunctuationStep(<<char1>>, 1)

\* ToneAt stepping over the cell after the final whatever it is
ToneAtSkipping(k) ==
  IF k < Len(chars)
    THEN [tone |-> IF <<chars[k + 1]>> \in DOMAIN toneMap
                     THEN toneMap[<<chars[k + 1]>>] ELSE <<"1">>,
          next |-> k + 1]
    ELSE [tone |-> <<"1">>, next |-> k]

\* "Check for tone marks (single or compound)" at index k, after the final:
\* the tone and the index after it
ToneAt(k) ==
  IF k < Len(chars)
    THEN IF <<chars[k + 1]>> \in DOMAIN toneMap
           THEN [tone |-> toneMap[<<chars[k + 1]>>], next |-> k + 1]
         ELSE IF chars[k + 1] = "d6" /\ k + 1 < Len(chars)
                   /\ <<chars[k + 1], chars[k + 2]>> \in DOMAIN toneMap
           THEN [tone |-> toneMap[<<chars[k + 1], chars[k + 2]>>], next |-> k + 2]
         ELSE [tone |-> <<"1">>, next |-> k]
    ELSE [tone |-> <<"1">>, next |-> k]

StartsWith(s, c) == s # <<>> /\ s[1] = c

\* InferInitial without the exceptions ik, ing, uk, ung
InferInitialNoExceptions(ini, fin) ==
  IF ini = <<>>
    THEN IF StartsWith(fin, "y") \/ StartsWith(fin, "i") THEN <<"j">>
         ELSE IF StartsWith(fin, "u") THEN <<"w">>
         ELSE <<>>
    ELSE ini

\* "Apply initial consonant rules for finals without initials"
InferInitial(ini, fin) ==
  IF ini = <<>>
    THEN IF (StartsWith(fin, "y") \/ StartsWith(fin, "i"))
              /\ fin # <<"i", "k">> /\ fin # <<"i", "n", "g">>
           THEN <<"j">>
         ELSE IF StartsWith(fin, "u") /\ fin # <<"u", "k">> /\ fin # <<"u", "n", "g">>
           THEN <<"w">>
         ELSE <<>>
    ELSE ini

\* HistoricFinal rewriting ang whatever the tone
HistoricFinalAnyTone(ini, fin, ton) ==
  IF ini = <<>>
    THEN IF fin = <<"a", "n", "g">> THEN <<"n", "g">>
         ELSE IF fin = <<"o", "p">> THEN <<"m">>
         ELSE fin
    ELSE fin

\* the final of a syllable without written initial: ang -> ng, op -> m
HistoricFinal(ini, fin, ton) ==
  IF ini = <<>>
    THEN LET f1 == IF fin = <<"a", "n", "g">> /\ ton \in {<<"4">>, <<"5">>, <<"6">>}
                     THEN <<"n", "g">>
                     ELSE fin
         IN  IF f1 = <<"o", "p">> THEN <<"m">> ELSE f1
    ELSE fin

\* a syllable read with written initial ini (or none), final fin and the tone
\* looked for at index k
SyllableStep(ini, fin, k) ==
  LET t == ToneAt(k)
  IN  /\ initial' = InferInitial(ini, fin)
      /\ final' = HistoricFinal(ini, fin, t.tone)
      /\ tone' = t.tone
      /\ i' = t.next
      /\ romanization' = romanization \o initial' \o final' \o tone' \o SpaceBefore(i')
      /\ inNumberMode' = ResetNumberMode
      /\ branch' = DecBranch
      /\ iters' = iters + 1
      /\ UNCHANGED warnings
      /\ DecFrame

DecInitialFinal ==
  /\ Scanning /\ DecBranch \in {"initial+final", "edge:initial+final"}
  /\ SyllableStep(initialMap[char1], finalMap[char2], i + 2)

DecFinalOnly ==
  /\ Scanning /\ DecBranch \in {"final", "edge:final"}
  /\ SyllableStep(<<>>, finalMap[char1], i + 1)

\* DecBlank without i++
DecBlankNoAdvance ==
  /\ Scanning /\ DecBranch = "blank"
  /\ romanization' = romanization \o <<" ">>
  /\ i' = i
  /\ inNumberMode' = ResetNumberMode
  /\ NoSyllable
  /\ branch' = DecBranch
  /\ iters' = iters + 1
  /\ UNCHANGED warnings
  /\ DecFrame

DecBlank ==
  /\ Scanning /\ DecBranch = "blank"
  /\ romanization' = romanization \o <<" ">>
  /\ i' = i + 1
  /\ inNumberMode' = ResetNumberMode
  /\ NoSyllable
  /\ branch' = DecBranch
  /\ iters' = iters + 1
  /\ UNCHANGED warnings
  /\ DecFrame

\* DecUnrecognized skipping the character without copying it
DecUnrecognizedDropped ==
  /\ Scanning /\ DecBranch \in {"unrecognized", "edge:unrecognized"}
  /\ warnings' = warnings + 1
  /\ romanization' = romanization \o SpaceBefore(i + 1)
  /\ i' = i + 1
  /\ inNumberMode' = ResetNumberMode
  /\ NoSyllable
  /\ branch' = DecBranch
  /\ iters' = iters + 1
  /\ DecFrame

\* console.warn, then "display illegal character as-is and skip"
DecUnrecognized ==
  /\ Scanning /\ DecBranch \in {"unrecognized", "edge:unrecognized"}
  /\ warnings' = warnings + 1
  /\ romanization' = romanization \o <<char1>> \o SpaceBefore(i + 1)
  /\ i' = i + 1
  /\ inNumberMode' = ResetNumberMode
  /\ NoSyllable
  /\ branch' = DecBranch
  /\ iters' = iters + 1
  /\ DecFrame

\* s.replace(/pat/, rep) without the g flag: the first match only
RECURSIVE ReplaceFirstFrom(_, _, _, _)
ReplaceFirstFrom(s, p, pat, rep) ==
  IF p > Len(s) THEN <<>>
  ELSE IF OccursAt(s, p, pat)
    THEN rep \o SubSeq(s, p + Len(pat), Len(s))
    ELSE <<s[p]>> \o ReplaceFirstFrom(s, p + 1, pat, rep)

\* rom2jp with the three patterns written without the g flag
rom2jpFirstOnly(r) ==
  ReplaceFirstFrom(
    ReplaceFirstFrom(ReplaceFirstFrom(r, 1, <<"p", "4">>, <<"p", "6">>),
                     1, <<"t", "4">>, <<"t", "6">>),
    1, <<"k", "4">>, <<"k", "6">>)

\* rom2jp without the replacement of k4
rom2jpNoK(r) ==
  ReplaceLit(ReplaceLit(r, <<"p", "4">>, <<"p", "6">>), <<"t", "4">>, <<"t", "6">>)

\* "Convert romanization to proper Jyutping format"
rom2jp(r) ==
  ReplaceLit(ReplaceLit(ReplaceLit(r, <<"p", "4">>, <<"p", "6">>),
                        <<"t", "4">>, <<"t", "6">>),
             <<"k", "4">>, <<"k", "6">>)

DecodeReturn ==
  /\ fn = "decode" /\ pc = "scan" /\ i >= Len(chars)
  /\ ret' = TrimLines(rom2jp(romanization))
  /\ pc' = "returned"
  /\ calls' = Append(calls, CallRecord(ret'))
  /\ UNCHANGED <<tables, fn, arg, chars, i, inNumberMode, romanization, initial, final,
                 tone, tokens, brailleResult, warnings, branch, iters>>

(***************************************************************************)
(* jp2rom and parseJyutpingToBraille                                       *)
(***************************************************************************)
\* "Convert Jyutping back to romanization format (reverse of rom2jp)"
jp2rom(jyutping) ==
  LET r1 == ReplaceLit(ReplaceLit(ReplaceLit(jyutping, <<"p", "6">>, <<"p", "4">>),
                                  <<"t", "6">>, <<"t", "4">>),
                       <<"k", "6">>, <<"k", "4">>)
      r2 == StripJFrom(r1, 1)
      r3 == StripWFrom(r2, 1)
      r4 == ExpandNasalFrom(r3, 1, <<"n", "g">>, <<"a", "n", "g">>)
      r5 == ExpandNasalFrom(r4, 1, <<"m">>, <<"o", "p">>)
  IN  Trim(r5)

\* jyutpingString.match(/([a-z]*\d|\S|\s+)/gi), from 0-based position p: at
\* each position the first alternative that matches; [a-z]* is greedy and the
\* digit has to follow the whole run of letters
RECURSIVE TokensFrom(_, _)
TokensFrom(s, p) ==
  IF p >= Len(s) THEN <<>>
  ELSE LET l == LetterRun(s, p)
           n == IF p + l < Len(s) /\ s[p + l + 1] \in Digit THEN l + 1
                ELSE IF ~IsSpace(s[p + 1]) THEN 1
                ELSE SpaceRun(s, p)
       IN  <<Slice(s, p, p + n)>> \o TokensFrom(s, p + n)

Tokenize(s) == TokensFrom(s, 0)

EncodeEntry ==
  /\ pc = "call" /\ fn = "encode"
  /\ tokens' = Tokenize(arg)
  /\ brailleResult' = <<>>
  /\ i' = 0
     \* match returns null when nothing matches, and tokens.length throws
  /\ pc' = IF arg = <<>> THEN "threw" ELSE "tokens"
  /\ UNCHANGED <<tables, fn, arg, chars, inNumberMode, romanization, initial, final,
                 tone, ret, warnings, branch, iters, calls>>

token == tokens[i + 1]

LowerCase(s) == [n \in DOMAIN s |-> ToLower(s[n])]

\* [bcdfghjklmnpqrstvwxyz] and [aeiouy]
ConsonantClass == Lower \ {"a", "e", "i", "o", "u"}

VowelClass == {"a", "e", "i", "o", "u", "y"}

\* s.match(/^([bcdfghjklmnpqrstvwxyz]*?)([aeiouy][a-z]*)(\d)$/): the lazy first
\* group ends before the first character of [aeiouy]
SyllableMatch(s) ==
  LET n == Len(s)
      firsts == {f \in 1 .. (n - 1) :
                   /\ s[f] \in VowelClass
                   /\ \A k \in 1 .. (f - 1) : s[k] \notin VowelClass}
  IN  IF /\ n >= 2
         /\ s[n] \in Digit
         /\ firsts # {}
         /\ LET f == CHOOSE f \in firsts : TRUE
            IN  /\ \A k \in 1 .. (f - 1) : s[k] \in ConsonantClass
                /\ \A k \in (f + 1) .. (n - 1) : s[k] \in Lower
        THEN LET f == CHOOSE f \in firsts : TRUE
             IN  [matched |-> TRUE,
                  initial |-> SubSeq(s, 1, f - 1),
                  final |-> SubSeq(s, f, n - 1),
                  tone |-> <<s[n]>>]
        ELSE [matched |-> FALSE, initial |-> <<>>, final |-> <<>>, tone |-> <<>>]

syllableMatch == SyllableMatch(jp2rom(LowerCase(token)))

\* "If syllable is recognized"
Recognized(m) ==
  /\ m.matched
  /\ m.initial = <<>> \/ m.initial \in DOMAIN reverseInitialMap
  /\ m.final \in DOMAIN reverseFinalMap
  /\ m.tone \in DOMAIN reverseToneMap

IsNumber(t) == t # <<>> /\ \A n \in DOMAIN t : t[n] \in Digit

EncBranch ==
  IF IsNumber(token) THEN "number"
  ELSE IF token \in DOMAIN reversePunctuationMap THEN "punctuation"
  ELSE IF Recognized(syllableMatch) THEN "syllable"
  ELSE "unrecognized"

Tokenizing == fn = "encode" /\ pc = "tokens" /\ i < Len(tokens)

\* EncFrame of an encoder that stores dots-4 as the reverse entry of tone 3
\* while it encodes
EncFrameWritingTone ==
  /\ tables' = [tables EXCEPT !.reverseToneMap = [@ EXCEPT ![<<"3">>] = <<"d4">>]]
  /\ UNCHANGED <<fn, arg, pc, chars, inNumberMode, romanization, initial, final,
                 tone, tokens, ret, warnings, calls>>

EncFrame ==
  UNCHANGED <<tables, fn, arg, pc, chars, inNumberMode, romanization, initial, final,
              tone, tokens, ret, warnings, calls>>

EncStep(cells) ==
  /\ brailleResult' = brailleResult \o cells
  /\ i' = i + 1
  /\ branch' = EncBranch
  /\ iters' = iters + 1
  /\ EncFrame

\* reverseNumberMap[digit] || digit
DigitCell(d) == IF <<d>> \in DOMAIN reverseNumberMap THEN reverseNumberMap[<<d>>] ELSE d

EncNumber ==
  /\ Tokenizing /\ EncBranch = "number"
  /\ EncStep(<<NumberPrefix>> \o [n \in DOMAIN token |-> DigitCell(token[n])])

EncPunctuation ==
  /\ Tokenizing /\ EncBranch = "punctuation"
  /\ EncStep(reversePunctuationMap[token])

\* /[ptk]$/
Checked(fin) == fin # <<>> /\ fin[Len(fin)] \in {"p", "t", "k"}

\* ToneMark without the special case of tone 3
ToneMarkFromTableOnly(ini, fin, ton) ==
  IF ton # <<"1">> \/ ini = <<>> THEN reverseToneMap[ton] ELSE <<>>

\* the tone cells of a recognized syllable
ToneMark(ini, fin, ton) ==
  IF ton = <<"3">> /\ ~Checked(fin) THEN <<"d4">>
  ELSE IF ton # <<"1">> \/ ini = <<>> THEN reverseToneMap[ton]
  ELSE <<>>

SyllableCells(m) ==
  (IF m.initial # <<>> THEN <<reverseInitialMap[m.initial]>> ELSE <<>>)
    \o <<reverseFinalMap[m.final]>>
    \o ToneMark(m.initial, m.final, m.tone)

EncSyllable ==
  /\ Tokenizing /\ EncBranch = "syllable"
  /\ EncStep(SyllableCells(syllableMatch))

\* "If token is not recognized, add as-is"
EncUnrecognized ==
  /\ Tokenizing /\ EncBranch = "unrecognized"
  /\ EncStep(token)

EncodeReturn ==
  /\ fn = "encode" /\ pc = "tokens" /\ i >= Len(tokens)
  /\ ret' = TrimAndJoinLines(brailleResult)
  /\ pc' = "returned"
  /\ calls' = Append(calls, CallRecord(ret'))
  /\ UNCHANGED <<tables, fn, arg, chars, i, inNumberMode, romanization, initial, final,
                 tone, tokens, brailleResult, warnings, branch, iters>>

(***************************************************************************)
(* The caller: the result of one function is given to the other.           *)
(***************************************************************************)
NextCall ==
  /\ pc = "returned" /\ Len(calls) < MaxCalls
  /\ fn' = IF fn = "decode" THEN "encode"
           ELSE IF fn = "encode" THEN "decode"
           ELSE "rom2jp"
  /\ arg' = ret
  /\ pc' = "call"
  /\ chars' = <<>>
  /\ i' = 0
  /\ inNumberMode' = FALSE
  /\ romanization' = <<>>
  /\ initial' = <<>>
  /\ final' = <<>>
  /\ tone' = <<"1">>
  /\ tokens' = <<>>
  /\ brailleResult' = <<>>
  /\ ret' = <<>>
  /\ warnings' = 0
  /\ branch' = "none"
  /\ iters' = 0
  /\ UNCHANGED <<calls, tables>>

\* the exported rom2jp and jp2rom, called directly
Rom2jpCall ==
  /\ pc = "call" /\ fn = "rom2jp"
  /\ ret' = rom2jp(arg)
  /\ pc' = "returned"
  /\ calls' = Append(calls, CallRecord(ret'))
  /\ UNCHANGED <<tables, fn, arg, chars, i, inNumberMode, romanization, initial, final,
                 tone, tokens, brailleResult, warnings, branch, iters>>

Jp2romCall ==
  /\ pc = "call" /\ fn = "jp2rom"
  /\ ret' = jp2rom(arg)
  /\ pc' = "returned"
  /\ calls' = Append(calls, CallRecord(ret'))
  /\ UNCHANGED <<tables, fn, arg, chars, i, inNumberMode, romanization, initial, final,
                 tone, tokens, brailleResult, warnings, branch, iters>>

DecodeIteration ==
  \/ DecNumberPrefix
  \/ DecNumberDigit
  \/ DecPunctuation5
  \/ DecPunctuation3
  \/ DecPunctuation2
  \/ DecPunctuation1
  \/ DecInitialFinal
  \/ DecFinalOnly
  \/ DecBlank
  \/ DecUnrecognized

EncodeIteration ==
  \/ EncNumber
  \/ EncPunctuation
  \/ EncSyllable
  \/ EncUnrecognized

Next ==
  \/ DecodeEntry
  \/ DecodeIteration
  \/ DecodeReturn
  \/ EncodeEntry
  \/ EncodeIteration
  \/ EncodeReturn
  \/ Rom2jpCall
  \/ Jp2romCall
  \/ NextCall

Spec == Init /\ [][Next]_vars

(***************************************************************************)
(* Properties.                                                             *)
(***************************************************************************)
\* what one decoder iteration appends to the output
Appended == SubSeq(romanization', Len(romanization) + 1, Len(romanization'))

\* a step that is one iteration of the decoder's loop
DecoderStep == Scanning /\ iters' = iters + 1

SyllableBranches == {"initial+final", "final"}

PunctuationBranches == {"punct5", "punct3", "punct2", "punct1"}

\* the completed call c decoded one syllable, in one iteration
DecodedSyllable(c) ==
  c.fn = "decode" /\ c.arg \in SyllableInputs /\ c.iters = 1
    /\ c.branch \in SyllableBranches

\* ... and the decoding rewrote ang to ng, op to m, or a checked tone 4 to 6
HitRewrite(c) ==
  c.final \in {<<"n", "g">>, <<"m">>} \/ rom2jp(c.romanization) # c.romanization

C2_EncodeNeverThrows == fn = "encode" => pc # "threw"

\* C3: for a single-syllable cell sequence x whose decoding does not rewrite
\* ang, op or a checked tone 4, encode(decode(x)) = x.
C3_BrailleRoundTrip ==
  (Len(calls) >= 2 /\ DecodedSyllable(calls[1]) /\ ~HitRewrite(calls[1]))
    => calls[2].ret = calls[1].arg

\* C4: for a single-syllable cell sequence x whose decoding rewrites ang, op
\* or a checked tone 4, decode(encode(decode(x))) = decode(x).
C4_NormalizationStable ==
  (Len(calls) >= 3 /\ DecodedSyllable(calls[1]) /\ HitRewrite(calls[1]))
    => calls[3].ret = calls[1].ret

\* C5: for every string s that decode returns for a single-syllable cell
\* sequence, decode(encode(s)) = s.
C5_JyutpingRoundTrip ==
  (Len(calls) >= 3 /\ DecodedSyllable(calls[1]))
    => calls[3].ret = calls[2].arg

\* the digits the cells after the prefix stand for
DigitsOf(x) == Cat([n \in 1 .. (Len(x) - 1) |-> numberMap[x[n + 1]]])

\* C6: the number prefix followed by n >= 1 digit cells decodes to exactly
\* the n digits: every iteration takes the prefix or the digit branch, and
\* inNumberMode is false when the scan ends.
C6_NumberMode ==
  (fn = "decode" /\ arg \in NumberInputs /\ pc \in {"scan", "returned"})
    => /\ branch \in {"none", "prefix", "digit"}
       /\ warnings = 0
       /\ i >= Len(chars) => ~inNumberMode
       /\ pc = "returned" => ret = DigitsOf(arg) /\ iters = Len(arg)

\* prefix, 2, 0, 5 has been decoded to "205"
C6_Witness ==
  /\ fn = "decode" /\ pc = "returned"
  /\ arg = <<"d3456", "d12", "d245", "d15">>
  /\ ret = <<"2", "0", "5">>
  /\ ~inNumberMode

\* C7: what the decoder appends in number mode is a decimal digit, and
\* inNumberMode is false after an iteration on a cell that is neither a digit
\* cell nor the number prefix.
C7_NumberModeDigitsOnly ==
  [][DecoderStep
       => /\ branch' = "digit" => \A n \in DOMAIN Appended : Appended[n] \in Digit
          /\ char1 \notin DigitCells \cup {NumberPrefix} => ~inNumberMode']_vars

\* the registered punctuation keys that start at the cursor
KeysHere == {k \in DOMAIN punctuationMap : OccursAt(chars, i + 1, k)}

LongestKeyHere == CHOOSE k \in KeysHere : \A j \in KeysHere : Len(j) <= Len(k)

\* C8: when the decoder comes to the punctuation rule and a registered key
\* starts at the cursor, the iteration emits the mark of the longest such key
\* as one token and consumes at least its cells.
C8_MaximalMunch ==
  [][(DecoderStep /\ char1 # NumberPrefix
        /\ ~(inNumberMode /\ char1 \in DOMAIN numberMap) /\ KeysHere # {})
       => LET mark == punctuationMap[LongestKeyHere]
          IN  /\ branch' \in PunctuationBranches
              /\ Appended \in {mark, mark \o <<" ">>}
              /\ i' >= i + Len(LongestKeyHere)]_vars

\* the five-cell ellipsis at the start of a longer input was one token
C8_Witness ==
  /\ fn = "decode" /\ pc = "scan"
  /\ branch = "punct5" /\ iters = 1 /\ i = 5 /\ Len(chars) = 6
  /\ romanization = <<"ELLIPSIS", " ">>

\* C9: the decoder's cursor stays within the input.
C9_CursorInRange ==
  (fn = "decode" /\ pc \in {"scan", "returned"}) => 0 <= i /\ i <= Len(chars)

\* the initial the claim expects for a final without written initial
ExpectedInitial(fin) ==
  IF fin[1] \in {"y", "i"} /\ fin \notin {<<"i", "k">>, <<"i", "n", "g">>} THEN <<"j">>
  ELSE IF fin[1] = "u" /\ fin \notin {<<"u", "k">>, <<"u", "n", "g">>} THEN <<"w">>
  ELSE <<>>

\* C10: a final decoded without initial gets j when it begins with y or i and
\* is not ik or ing, w when it begins with u and is not uk or ung, and nothing
\* otherwise; a written initial is kept; the initial opens the syllable in
\* the output.
C10_Epenthesis ==
  /\ [][(DecoderStep /\ branch' \in SyllableBranches)
          => /\ branch' = "final" => initial' = ExpectedInitial(finalMap[char1])
             /\ branch' = "initial+final" => initial' = initialMap[char1]
             /\ SubSeq(Appended, 1, Len(initial')) = initial']_vars
  /\ []((fn = "decode" /\ pc = "returned" /\ iters = 1 /\ branch \in SyllableBranches)
          => /\ SubSeq(ret, 1, Len(initial)) = initial
             /\ Len(ret) = Len(initial) + Len(final) + 1)

\* the final u with the tone-2 cell has been decoded to "wu2"
C10_Witness ==
  /\ fn = "decode" /\ pc = "returned"
  /\ arg = <<"d136", "d1">>
  /\ branch = "final"
  /\ ret = <<"w", "u", "2">>

\* decode has returned from a one-syllable input read in one iteration
OneSyllable ==
  /\ fn = "decode" /\ pc = "returned"
  /\ arg \in SyllableInputs /\ iters = 1 /\ branch \in SyllableBranches

\* the index of the final cell of that syllable
FinalAt == IF branch = "final" THEN 1 ELSE 2

\* the final the Final table gives for the cell
WrittenFinal == finalMap[chars[FinalAt]]

\* the tone digit of the tone cell read after the final, "1" without one
WrittenTone ==
  IF Len(chars) > FinalAt THEN toneMap[<<chars[FinalAt + 1]>>] ELSE <<"1">>

EndsInStop(f) == f # <<>> /\ f[Len(f)] \in {"p", "t", "k"}

\* the tone digit of the syllable in the returned string
OutputTone == <<ret[Len(ret)]>>

\* C11 as claimed: a syllable whose Final-table final ends in p, t or k and
\* whose tone cell is the tone-4 cell is output with tone 6, and a syllable
\* whose final does not end in p, t or k keeps its tone digit.
C11_CheckedToneAsClaimed ==
  OneSyllable
    => /\ (EndsInStop(WrittenFinal) /\ WrittenTone = <<"4">>) => OutputTone = <<"6">>
       /\ ~EndsInStop(WrittenFinal) => OutputTone = WrittenTone

\* C11, amended: the correction applies to the final as it is output, after
\* the historic-final rewrite: a syllable whose output final ends in p, t or
\* k and whose tone cell is the tone-4 cell is output with tone 6; every
\* other syllable, the initial-less op output as m included, keeps the tone
\* digit of its tone cell.
C11_CheckedTone ==
  OneSyllable
    => /\ ret = initial \o final \o OutputTone
       /\ (EndsInStop(final) /\ WrittenTone = <<"4">>) => OutputTone = <<"6">>
       /\ ~(EndsInStop(final) /\ WrittenTone = <<"4">>) => OutputTone = WrittenTone
       /\ final # WrittenFinal => initial = <<>> /\ WrittenFinal \in {<<"a", "n", "g">>, <<"o", "p">>}

\* b + aap + the tone-4 cell has been decoded to "baap6"
C11_Witness ==
  /\ OneSyllable
  /\ arg = <<"d1234", "d1234", "d3">>
  /\ ret = <<"b", "a", "a", "p", "6">>


AngCell == "d1245"

OpCell == "d134"

\* the first call of the chain decoded the cells x
FirstDecoded(x) == Len(calls) >= 1 /\ calls[1].fn = "decode" /\ calls[1].arg = x

\* the second call of the chain encoded the string the first call returned
ThenEncoded == Len(calls) >= 2 /\ calls[2].fn = "encode" /\ calls[2].arg = calls[1].ret

\* the second call returned the final cell c and a tone cell of the tone t
EncodedAs(c, t) ==
  LET r == calls[2].ret
  IN  Len(r) = 2 /\ r[1] = c /\ <<r[2]>> \in DOMAIN toneMap /\ toneMap[<<r[2]>>] = t

\* C12: an initial-less ang with tone 4, 5 or 6 decodes to ng + tone and an
\* initial-less op with any tone to m + tone; encoding that string gives the
\* ang or op cell followed by a tone cell of the tone; ang with an initial, or
\* with tone 1, 2 or 3, keeps the final ang.
C12_HistoricFinals ==
  /\ \A ts \in ToneSuffixes :
       LET t == IF ts = <<>> THEN <<"1">> ELSE toneMap[ts]
       IN  /\ FirstDecoded(<<OpCell>> \o ts)
                => /\ calls[1].ret = <<"m">> \o t
                   /\ ThenEncoded => EncodedAs(OpCell, t)
           /\ (FirstDecoded(<<AngCell>> \o ts) /\ t \in {<<"4">>, <<"5">>, <<"6">>})
                => /\ calls[1].ret = <<"n", "g">> \o t
                   /\ ThenEncoded => EncodedAs(AngCell, t)
           /\ (FirstDecoded(<<AngCell>> \o ts) /\ t \in {<<"1">>, <<"2">>, <<"3">>})
                => calls[1].ret = <<"a", "n", "g">> \o t
           /\ \A c \in InitialCells :
                FirstDecoded(<<c, AngCell>> \o ts)
                  => \E t2 \in {t, <<"6">>} :
                       calls[1].ret = initialMap[c] \o <<"a", "n", "g">> \o t2

\* the ang cell with the tone-6 cell went to "ng6" and back to the same cells
C12_Witness ==
  /\ FirstDecoded(<<AngCell, "d2">>) /\ ThenEncoded
  /\ calls[1].ret = <<"n", "g", "6">>
  /\ calls[2].ret = <<AngCell, "d2">>


\* the cell at the cursor matches no rule of the decoder: it is not the
\* number prefix, not a digit cell read in number mode, not the start of a
\* registered punctuation key, not an initial or final cell and not blank
NoTableEntry ==
  /\ char1 # NumberPrefix
  /\ ~(inNumberMode /\ char1 \in DOMAIN numberMap)
  /\ KeysHere = {}
  /\ char1 \notin DOMAIN initialMap \cup DOMAIN finalMap
  /\ char1 # BlankCell

EncoderStep == Tokenizing /\ iters' = iters + 1

\* C14: a token of the encoder that is not a digit run, not a key of the
\* inverse Punctuation table and not a recognized syllable is appended to the
\* output as it was written, and one diagnostic is reported for it.
C14_UnrecognizedToken ==
  [][(EncoderStep /\ ~IsNumber(token) /\ token \notin DOMAIN reversePunctuationMap
        /\ ~Recognized(syllableMatch))
       => /\ brailleResult' = brailleResult \o token
          /\ warnings' = warnings + 1]_vars


\* the positions in a forward table of the entries that write the symbol s
WritersOf(entries, s) == {n \in DOMAIN entries : entries[n][2] = s}

\* the symbols a forward table writes with two or more cell sequences
Collisions(entries) ==
  {entries[n][2] : n \in {k \in DOMAIN entries : Cardinality(WritersOf(entries, entries[k][2])) >= 2}}

FirstKeyOf(entries, s) ==
  entries[CHOOSE n \in WritersOf(entries, s) : \A k \in WritersOf(entries, s) : n <= k][1]

LastKeyOf(entries, s) ==
  entries[CHOOSE n \in WritersOf(entries, s) : \A k \in WritersOf(entries, s) : k <= n][1]

\* the encoder is at a punctuation token written by several cell sequences
AtCollidingPunctuation ==
  Tokenizing /\ EncBranch = "punctuation" /\ token \in Collisions(punctuationEntries)

\* the encoder is at a recognized syllable whose tone several cells write
AtCollidingTone ==
  Tokenizing /\ EncBranch = "syllable"
    /\ syllableMatch.tone \in Collisions(toneEntries)

\* C15 as claimed: the reverse lookup of a symbol written by two or more cell
\* sequences returns the sequence defined first in the forward table.
C15_ReverseFirstWins ==
  /\ AtCollidingPunctuation
       => reversePunctuationMap[token] = FirstKeyOf(punctuationEntries, token)
  /\ AtCollidingTone
       => reverseToneMap[syllableMatch.tone] = FirstKeyOf(toneEntries, syllableMatch.tone)

\* the symbols with several cell sequences, and their reverse lookups
CollisionsAreLastWins ==
  /\ Collisions(toneEntries) = {<<"3">>}
  /\ Collisions(punctuationEntries)
       = {<<"PERIOD">>, <<"ELLIPSIS">>, <<"LCORNER">>, <<"RCORNER">>, <<"*", "*">>}
  /\ \A s \in Collisions(toneEntries) : reverseToneMap[s] = LastKeyOf(toneEntries, s)
  /\ \A s \in Collisions(punctuationEntries) :
       reversePunctuationMap[s] = LastKeyOf(punctuationEntries, s)

\* C15, amended: the symbols written by two or more cell sequences are tone
\* 3 and the punctuation marks period, ellipsis, opening and closing corner
\* bracket and the emphasis mark, and the reverse lookup of each returns the
\* sequence defined last in the forward table; the encoder writes that
\* sequence for the mark, and the last tone-3 cell for tone 3 on a checked
\* final.
C15_ReverseLastWins ==
  /\ [](Tokenizing => CollisionsAreLastWins)
  /\ [][(EncoderStep /\ AtCollidingPunctuation)
          => brailleResult' = brailleResult \o LastKeyOf(punctuationEntries, token)]_vars
  /\ [][(EncoderStep /\ AtCollidingTone /\ Checked(syllableMatch.final))
          => SubSeq(brailleResult', Len(brailleResult') , Len(brailleResult'))
               = LastKeyOf(toneEntries, syllableMatch.tone)]_vars

\* the period has been encoded as dots-123456 and a blank, the second of its
\* two cell sequences
C15_Witness ==
  /\ fn = "encode" /\ pc = "returned"
  /\ arg = <<"PERIOD">>
  /\ branch = "punctuation"
  /\ ret = <<"d123456", "d0">>


\* the cell c is the reverse lookup of the symbol the forward table gives it
InvertsAt(forward, reverse, c) ==
  forward[c] \in DOMAIN reverse /\ reverse[forward[c]] = c

\* every cell of the Initial and of the Final table is the reverse lookup of
\* its symbol, and no symbol of either table has two cells
InitialFinalTablesInvert ==
  /\ \A c \in DOMAIN initialMap : InvertsAt(initialMap, reverseInitialMap, c)
  /\ \A c \in DOMAIN finalMap : InvertsAt(finalMap, reverseFinalMap, c)
  /\ Collisions(initialEntries) = {} /\ Collisions(finalEntries) = {}

\* C16: the Initial and the Final table invert exactly: each cell of either
\* table is the reverse lookup of its symbol, and neither table writes one
\* symbol with two cells; so it is for the cells of every syllable the
\* decoder reads.
C16_InitialFinalInvert ==
  /\ InitialFinalTablesInvert
  /\ (Scanning /\ DecBranch = "initial+final")
       => /\ reverseInitialMap[initialMap[char1]] = char1
          /\ reverseFinalMap[finalMap[char2]] = char2
  /\ (Scanning /\ DecBranch = "final") => reverseFinalMap[finalMap[char1]] = char1

\* the decoder is at the cells of b and aap, which the reverse tables give
\* back for "b" and "aap"
C16_Witness ==
  /\ Scanning /\ DecBranch = "initial+final"
  /\ arg = <<"d1234", "d1234">> /\ i = 0
  /\ reverseInitialMap[<<"b">>] = "d1234"
  /\ reverseFinalMap[<<"a", "a", "p">>] = "d1234"


\* the number of line breaks in the string s
RECURSIVE LineBreaks(_)
LineBreaks(s) ==
  IF s = <<>> THEN 0
  ELSE (IF IsLineTerminator(Head(s)) THEN 1 ELSE 0) + LineBreaks(Tail(s))

\* C17: the string decode returns has as many line breaks as its input,
\* blank lines and consecutive line breaks included (the order of the line
\* breaks among the decoded tokens presupposes that they are all there).
C17_LineBreaksPreserved ==
  (fn = "decode" /\ pc = "returned") => LineBreaks(ret) = LineBreaks(arg)


\* no line of the string s begins or ends with a space
LinesTrimmed(s) ==
  \A n \in DOMAIN s :
    s[n] = " " =>
      /\ n > 1 /\ ~IsLineTerminator(s[n - 1])
      /\ n < Len(s) /\ ~IsLineTerminator(s[n + 1])

\* C18: in the string decode returns no line begins with a space and no line
\* ends with a space.
C18_LinesTrimmed ==
  (fn = "decode" /\ pc = "returned") => LinesTrimmed(ret)


\* C19: an input of the encoder that is one run of n >= 1 digits is returned
\* as one number-prefix cell followed by the n cells the inverse Digit table
\* gives for the digits, in order.
C19_DigitRuns ==
  (fn = "encode" /\ pc = "returned" /\ IsNumber(arg))
    => ret = <<NumberPrefix>> \o [n \in DOMAIN arg |-> reverseNumberMap[<<arg[n]>>]]


\* what one iteration of the encoder appends to the output
Emitted == SubSeq(brailleResult', Len(brailleResult) + 1, Len(brailleResult'))

\* the one cell the Tone table has for a tone other than 3
ToneCellOf(t) == CHOOSE c \in DOMAIN toneMap : toneMap[c] = t

\* the tone cells the policy asks for
PolicyTone(ini, fin, ton) ==
  IF ton = <<"3">> THEN (IF EndsInStop(fin) THEN <<"d5">> ELSE <<"d4">>)
  ELSE IF ton = <<"1">> THEN (IF ini = <<>> THEN <<"d0">> ELSE <<>>)
  ELSE ToneCellOf(ton)

\* C20: for a recognized syllable (initial, final and tone as matched after
\* jp2rom) the encoder emits the initial cell if there is an initial, the
\* final cell, and then: for tone 3 dots-4 on a final not ending in p, t or
\* k and dots-5 on one that does; for tones 2, 4, 5 and 6 their tone cell;
\* for tone 1 the blank cell iff there is no initial. An initial-less
\* syllable is final cell + tone cell, and every syllable is 1 to 3 cells.
C20_TonePolicy ==
  [][(EncoderStep /\ EncBranch = "syllable")
       => LET s == syllableMatch
              head == IF s.initial = <<>> THEN <<>> ELSE <<reverseInitialMap[s.initial]>>
          IN  /\ Emitted = head \o <<reverseFinalMap[s.final]>>
                             \o PolicyTone(s.initial, s.final, s.tone)
              /\ s.initial = <<>> => Len(Emitted) = 2
              /\ Len(Emitted) \in 1 .. 3]_vars

\* "baa3", decoded from b + aa + dots-4, has been encoded with dots-4 again
C20_Witness ==
  /\ Len(calls) >= 2 /\ calls[2].fn = "encode"
  /\ calls[2].arg = <<"b", "a", "a", "3">>
  /\ calls[2].branch = "syllable"
  /\ calls[2].ret = <<"d1234", "d12", "d4">>


\* the number of blank cells in the string s
RECURSIVE BlankCells(_)
BlankCells(s) ==
  IF s = <<>> THEN 0
  ELSE (IF Head(s) = BlankCell THEN 1 ELSE 0) + BlankCells(Tail(s))

\* no space of s stands between two Braille cells
NoSpaceBetweenCells(s) ==
  \A a, b \in DOMAIN s :
    (a + 1 < b /\ s[a] \in BrailleCells /\ s[b] \in BrailleCells)
      => \E n \in (a + 1) .. (b - 1) : s[n] # " "

\* C21: in the string encode returns no line has a space between two Braille
\* cells, no line begins or ends with a space, and every blank cell of the
\* encoder's output is still there.
C21_EncodeWhitespace ==
  (fn = "encode" /\ pc = "returned")
    => /\ NoSpaceBetweenCells(ret)
       /\ LinesTrimmed(ret)
       /\ BlankCells(ret) = BlankCells(brailleResult)


\* C22: rom2jp is idempotent: called on its own result it returns that result
\* again; and the string decode returns is a fixed point of rom2jp.
C22_Rom2jpIdempotent ==
  /\ \A n \in 1 .. (Len(calls) - 1) :
       (calls[n].fn = "rom2jp" /\ calls[n + 1].fn = "rom2jp")
         => /\ calls[n + 1].arg = calls[n].ret
            /\ calls[n + 1].ret = calls[n].ret
  /\ (fn = "decode" /\ pc = "returned") => rom2jp(ret) = ret

\* rom2jp took "ap4t" to "ap6t", and "ap6t" to itself
C22_Witness ==
  /\ Len(calls) >= 2
  /\ calls[1].fn = "rom2jp" /\ calls[1].arg = <<"a", "p", "4", "t">>
  /\ calls[1].ret = <<"a", "p", "6", "t">>
  /\ calls[2].fn = "rom2jp" /\ calls[2].ret = <<"a", "p", "6", "t">>


\* the finals before which the decoder puts the initial j, and w
JTrigger(fin) ==
  (StartsWith(fin, "y") \/ StartsWith(fin, "i"))
    /\ fin \notin {<<"i", "k">>, <<"i", "n", "g">>}

WTrigger(fin) == StartsWith(fin, "u") /\ fin \notin {<<"u", "k">>, <<"u", "n", "g">>}

\* what the claim has jp2rom return for the syllable ini + fin + t
ClaimedJp2rom(ini, fin, t) ==
  (IF (ini = <<"j">> /\ JTrigger(fin)) \/ (ini = <<"w">> /\ WTrigger(fin))
     THEN <<>> ELSE ini)
    \o fin
    \o (IF t = <<"6">> /\ EndsInStop(fin) THEN <<"4">> ELSE t)

\* C23: for a syllable of initial, final and tone, jp2rom strips the initial
\* only when it is j or w, whole, before a final of the epenthesis trigger
\* set, leaves every other initial (gw and kw included) and every final
\* unchanged, and changes tone 6 to 4 only on a final ending in p, t or k.
C23_Jp2romStrips ==
  \A n \in DOMAIN calls :
    calls[n].fn = "jp2rom"
      => \A ini \in {<<>>} \cup DOMAIN reverseInitialMap, t \in Tones :
           \A fin \in DOMAIN reverseFinalMap :
             calls[n].arg = ini \o fin \o t
               => calls[n].ret = ClaimedJp2rom(ini, fin, t)


\* C24: no call of decode, encode, rom2jp or jp2rom, in any sequence, changes
\* an entry of the five forward or the five reverse tables: they are at
\* every moment what they were when the file was loaded.
C24_TablesFrozen == tables = TablesAtLoad

\* decode, encode and decode again have run, and the tables are as at load
C24_Witness ==
  /\ Len(calls) = 3 /\ pc = "returned"
  /\ calls[1].fn = "decode" /\ calls[1].arg = <<"d1234", "d1234", "d3">>
  /\ calls[2].fn = "encode" /\ calls[2].branch = "syllable"
  /\ tables.reverseToneMap = reverseToneMap
  /\ tables = TablesAtLoad


\* the rule the claimed priority gives the cell at the cursor
ClaimedRule ==
  IF char1 = NumberPrefix THEN "prefix"
  ELSE IF inNumberMode /\ char1 \in DOMAIN numberMap THEN "digit"
  ELSE IF KeysHere # {} THEN "punctuation"
  ELSE IF char1 \in DOMAIN initialMap /\ i + 1 < Len(chars)
            /\ chars[i + 2] \in DOMAIN finalMap
    THEN "initial+final"
  ELSE IF char1 \in DOMAIN finalMap THEN "final"
  ELSE IF char1 = BlankCell THEN "blank"
  ELSE "literal"

\* the rule an iteration took, by the branch it recorded
RuleOf(b) ==
  IF b \in PunctuationBranches THEN "punctuation"
  ELSE IF b = "unrecognized" THEN "literal"
  ELSE b

\* C25: every iteration of the decoder takes the first rule that applies in
\* the order number prefix, number-mode digit, punctuation, initial + final,
\* final alone, blank cell, literal; so a digit cell that is also an initial
\* or final is a digit in number mode, and dots-45, outside number mode, is
\* the enumeration comma and never the final aan without initial.
C25_RulePriority ==
  [][DecoderStep
       => /\ RuleOf(branch') = ClaimedRule
          /\ (inNumberMode /\ char1 \in DOMAIN numberMap) => branch' = "digit"
          /\ char1 = "d45"
               => /\ branch' \in PunctuationBranches
                  /\ Appended \in {<<"DUN">>, <<"DUN", " ">>}]_vars

\* dots-45 and the tone-2 cell: the comma was decoded, not aan2
C25_Witness ==
  /\ fn = "decode" /\ pc = "scan"
  /\ arg = <<"d45", "d1">> /\ iters = 1
  /\ branch \in PunctuationBranches
  /\ romanization = <<"DUN", " ">>


\* C26: for a digit run d and a syllable s that decode returns, decoding
\* encode(d + ' ' + s) gives the digits of d followed by the syllable s.
C26_NumberBoundary ==
  \A d \in SeqsUpTo({"2", "6"}, MaxDigits) \ {<<>>}, s \in BoundarySyllables :
    (Len(calls) >= 2 /\ calls[1].fn = "encode" /\ calls[1].arg = d \o <<" ">> \o s
       /\ calls[2].fn = "decode" /\ calls[2].arg = calls[1].ret)
      => calls[2].ret \in {d \o s, d \o <<" ">> \o s}


\* the number of cells before the cell that follows the final of the
\* syllable the iteration reads
AfterFinal == i + (IF DecBranch = "final" THEN 1 ELSE 2)

\* that cell is there and is a key of the Tone table
ToneCellFollows ==
  AfterFinal < Len(chars) /\ <<chars[AfterFinal + 1]>> \in DOMAIN toneMap

\* C27: the tone of a syllable the decoder reads is the Tone-table value of
\* the cell right after its final when that cell is a Tone-table key, and
\* "1" otherwise; the tone takes that one cell or none (the Tone table has no
\* two-cell key), so the syllable takes 1 to 3 cells.
C27_ToneSuffix ==
  [][(DecoderStep /\ DecBranch \in SyllableBranches)
       => /\ \A k \in DOMAIN toneMap : Len(k) = 1
          /\ tone' = IF ToneCellFollows THEN toneMap[<<chars[AfterFinal + 1]>>]
                     ELSE <<"1">>
          /\ i' = AfterFinal + (IF ToneCellFollows THEN 1 ELSE 0)
          /\ i' - i \in 1 .. 3]_vars

\* the final aa and the tone-2 cell have been read as one syllable of tone 2
C27_Witness ==
  /\ fn = "decode" /\ pc = "scan"
  /\ chars = <<"d12", "d1", "d12">> /\ iters = 1
  /\ branch = "final" /\ tone = <<"2">> /\ i = 2
  /\ romanization = <<"a", "a", "2", " ">>


\* C28: at the head of an iteration of the decoder inNumberMode is true only
\* if the cell consumed last was the number prefix, or it was consumed as a
\* digit of number mode and the cell at the cursor is a key of the Digit
\* table or the prefix; and after an iteration that emitted punctuation, a
\* syllable, a blank or a literal inNumberMode is false.
C28_NumberModeInvariant ==
  /\ (Scanning /\ inNumberMode)
       => /\ i >= 1
          /\ \/ branch = "prefix" /\ chars[i] = NumberPrefix
             \/ /\ branch = "digit" /\ chars[i] \in DOMAIN numberMap
                /\ char1 \in DOMAIN numberMap \/ char1 = NumberPrefix
  /\ (fn = "decode" /\ pc \in {"scan", "returned"}
        /\ branch \in PunctuationBranches \cup SyllableBranches \cup {"blank", "unrecognized"})
       => ~inNumberMode

\* after the prefix and the digit 2 the decoder is in number mode at the
\* digit cell of 0
C28_Witness ==
  /\ Scanning /\ inNumberMode
  /\ arg = <<"d3456", "d12", "d245", "d15">>
  /\ i = 2 /\ branch = "digit"
  /\ romanization = <<"2">>


EdgeBranches == {"edge:initial+final", "edge:final", "edge:unrecognized"}

\* every key of the Initial table is a key of the Final table
InitialCellsAreFinalCells == DOMAIN initialMap \subseteq DOMAIN finalMap

\* C29: the decoder never takes the edge-case branch with its 'Unrecognized
\* pattern' literal: every initial cell is also a final cell, so an initial
\* cell that is not followed by a final cell is read, when the decoder comes
\* to the syllable rules, as a syllable without initial, and never as a
\* literal.
C29_EdgeBranchUnreachable ==
  /\ [](Scanning => InitialCellsAreFinalCells /\ DecBranch \notin EdgeBranches)
  /\ []((fn = "decode") => branch \notin EdgeBranches)
  /\ [][(DecoderStep /\ char1 \in DOMAIN initialMap)
          => /\ branch' # "unrecognized"
             /\ (ClaimedRule \notin {"prefix", "digit", "punctuation"}
                   /\ ~(i + 1 < Len(chars) /\ chars[i + 2] \in DOMAIN finalMap))
                  => /\ branch' = "final"
                     /\ initial' = ExpectedInitial(finalMap[char1])
                     /\ warnings' = warnings]_vars

\* the cell of b before a character of no table has been read as the final
\* aap without initial
C29_Witness ==
  /\ fn = "decode" /\ pc = "scan"
  /\ chars = <<"d1234", "~">> /\ iters = 1 /\ i = 1
  /\ branch = "final" /\ warnings = 0
  /\ romanization = <<"a", "a", "p", "1", " ">>


\* the registered punctuation keys that start at the cell after the final
KeysAfterFinal == {k \in DOMAIN punctuationMap : OccursAt(chars, AfterFinal + 1, k)}

\* the cell after the final starts the next unit: a registered punctuation
\* sequence, or a syllable
NextUnitFollows ==
  /\ AfterFinal < Len(chars)
  /\ \/ KeysAfterFinal # {}
     \/ chars[AfterFinal + 1] \in DOMAIN initialMap \cup DOMAIN finalMap

\* C30: when the cell after the final of a syllable starts a registered
\* punctuation sequence, or is a cell of the Initial or Final table, the tone
\* lookahead leaves it where it is: the syllable has tone 1 and the next
\* iteration starts at that cell.
C30_ToneLookahead ==
  [][(DecoderStep /\ DecBranch \in SyllableBranches /\ NextUnitFollows)
       => /\ tone' = <<"1">>
          /\ i' = AfterFinal]_vars

\* no cell of the Tone table is a cell of the Initial or of the Final table
ToneCellsStartNoSyllable ==
  [](Scanning => ToneCells \cap (DOMAIN initialMap \cup DOMAIN finalMap) = {})


=============================================================================
